---- MODULE Spec2Model ----
(***************************************************************************)
(* concorde.js: the Cookie module (modules/cookie/src/cookie.js) and the   *)
(* query functions of the Browser module (matches, oneOf, isOutdated).     *)
(*                                                                         *)
(* Text is a sequence of symbols.  A symbol is one character ("a", ";")    *)
(* or an atomic token standing for a run of characters that no key or      *)
(* value of the model can contain ("expires=", "path=", "secure", a        *)
(* formatted date, a path, a domain).                                      *)
(***************************************************************************)
EXTENDS Integers, Sequences, FiniteSets, TLC

VARIABLES
    options,    \* Cookie.options: the configured defaults
    configured, \* history: the options object of the most recent configure call
    jar,        \* the host's cookies visible to the document, in the order document.cookie lists them
    written,    \* the text most recently assigned to document.cookie
    last,       \* the most recent configure / set / unset call
    got,        \* the most recent get call since `last`, and what it returned
    browser,    \* Search.browser.identity and Search.version(...) of the host
    asked       \* the most recent matches / oneOf / isOutdated calls and their results

vars == <<options, configured, jar, written, last, got, browser, asked>>

-----------------------------------------------------------------------------
(* Bounds *)

MaxKeyLen == 1
MaxValLen == 1
MaxJar == 2
MaxQueries == 2

-----------------------------------------------------------------------------
(* Text helpers *)

SeqsUpTo(S, n) == UNION {[1..k -> S] : k \in 0..n}

\* Array.prototype.join
RECURSIVE Join(_, _)
Join(parts, sep) ==
    IF parts = <<>> THEN <<>>
    ELSE IF Len(parts) = 1 THEN parts[1]
    ELSE parts[1] \o sep \o Join(Tail(parts), sep)

\* index of the first occurrence of symbol c in s, 0 when there is none
IndexOf(s, c) ==
    IF \E i \in 1..Len(s) : s[i] = c
    THEN CHOOSE i \in 1..Len(s) : s[i] = c /\ \A j \in 1..(i - 1) : s[j] # c
    ELSE 0

\* s cut at every occurrence of the symbol c
RECURSIVE SplitOn(_, _)
SplitOn(s, c) ==
    LET i == IndexOf(s, c)
    IN  IF i = 0 THEN <<s>>
        ELSE <<SubSeq(s, 1, i - 1)>> \o SplitOn(SubSeq(s, i + 1, Len(s)), c)

RECURSIVE TrimLeft(_)
TrimLeft(s) == IF s # <<>> /\ Head(s) = " " THEN TrimLeft(Tail(s)) ELSE s

RECURSIVE TrimRight(_)
TrimRight(s) ==
    IF s # <<>> /\ s[Len(s)] = " " THEN TrimRight(SubSeq(s, 1, Len(s) - 1)) ELSE s

Trim(s) == TrimRight(TrimLeft(s))

-----------------------------------------------------------------------------
(* JavaScript values: a string, null, or a number (with its String() form) *)

Str(s) == [t |-> "string", s |-> s]
Null == [t |-> "null", s |-> <<>>]
Num(s) == [t |-> "number", s |-> s]
Threw(e) == [t |-> "throw", s |-> <<e>>]

\* String(value)
String(value) == IF value.t = "null" THEN <<"n", "u", "l", "l">> ELSE value.s

\* encodeURIComponent, character by character: the reserved characters of
\* the alphabet are percent-encoded; letters, digits and - _ . ! ~ * ' ( )
\* are left as they are.
EncodeChar(c) ==
    CASE c = " " -> <<"%", "2", "0">>
      [] c = "%" -> <<"%", "2", "5">>
      [] c = ";" -> <<"%", "3", "B">>
      [] c = "=" -> <<"%", "3", "D">>
      [] OTHER   -> <<c>>

RECURSIVE encodeURIComponent(_)
encodeURIComponent(s) ==
    IF s = <<>> THEN <<>> ELSE EncodeChar(Head(s)) \o encodeURIComponent(Tail(s))

\* decodeURIComponent: [ok, s]; ok = FALSE is a thrown URIError.  A "%"
\* must be followed by two hex digits naming a character.  Over the
\* symbols of this model the only escapes that name one are the four
\* below: every other text after "%" is either not two hex digits ("%",
\* "%b", "%%") or a lone UTF-8 continuation byte ("%bb", "%ab"), and
\* decodeURIComponent throws on both.
PercentCodes == {<<"2", "0">>, <<"2", "5">>, <<"3", "B">>, <<"3", "D">>}

DecodePair(p) ==
    CASE p = <<"2", "0">> -> " "
      [] p = <<"2", "5">> -> "%"
      [] p = <<"3", "B">> -> ";"
      [] p = <<"3", "D">> -> "="

RECURSIVE decodeURIComponent(_)
decodeURIComponent(s) ==
    IF s = <<>> THEN [ok |-> TRUE, s |-> <<>>]
    ELSE IF Head(s) # "%"
    THEN LET rest == decodeURIComponent(Tail(s))
         IN  [ok |-> rest.ok, s |-> <<Head(s)>> \o rest.s]
    ELSE IF Len(s) < 3 \/ SubSeq(s, 2, 3) \notin PercentCodes
    THEN [ok |-> FALSE, s |-> <<>>]
    ELSE LET rest == decodeURIComponent(SubSeq(s, 4, Len(s)))
         IN  [ok |-> rest.ok, s |-> <<DecodePair(SubSeq(s, 2, 3))>> \o rest.s]

-----------------------------------------------------------------------------
(* Cookie options.  An options object holds each of its six fields or     *)
(* lacks it (set = FALSE).  days is an integer or some other number.      *)

Missing(v) == [set |-> FALSE, v |-> v]
Given(v) == [set |-> TRUE, v |-> v]
NoDays == [set |-> FALSE, int |-> FALSE, v |-> 0]
Days(n) == [set |-> TRUE, int |-> TRUE, v |-> n]
FractionalDays == [set |-> TRUE, int |-> FALSE, v |-> 1]

Fields == {"expires", "path", "domain", "secure", "days", "raw"}

\* {}
NoOptions ==
    [expires |-> Missing(0), path |-> Missing(""), domain |-> Missing(""),
     secure |-> Missing(FALSE), days |-> NoDays, raw |-> Missing(FALSE)]

\* The host: the document is https://example.com/app/page, today is day Now.
Now == 0
Dates == (Now - 2)..(Now + 3)
DocumentDomain == "example.com"
DefaultPath == "/app"
VisiblePaths == {DefaultPath, "/"}

\* The inputs of the round-trip runs (Spec): every key and value up to the
\* bounds, a few defaults, calls without options of their own.
KeyChars == {"a", ".", "("}
ValChars == {"b", ";"}
Keys == SeqsUpTo(KeyChars, MaxKeyLen) \ {<<>>}
Values == {Null, Num(<<"5">>)} \cup {Str(s) : s \in SeqsUpTo(ValChars, MaxValLen)}
\* the options objects callers pass to get: [defaultValue, raw]
GetOptions ==
    { [defaultValue |-> Null, raw |-> FALSE],
      [defaultValue |-> Str(<<"d">>), raw |-> FALSE],
      [defaultValue |-> Str(<<"d">>), raw |-> TRUE] }
ConfigOptions ==
    { NoOptions,
      [NoOptions EXCEPT !.days = Days(-1)],
      [NoOptions EXCEPT !.raw = Given(TRUE)] }
CallOptions == { NoOptions }

\* The inputs of the option runs (OptionsSpec): one key, few values, many
\* options objects for configure and for set and unset.
OptKeys == { <<"a">> }
OptValues == { Null, Str(<<"b">>), Str(<<"%">>) }
OptGetOptions == { [defaultValue |-> Null, raw |-> FALSE], [defaultValue |-> Null, raw |-> TRUE] }
OptConfigOptions ==
    { NoOptions,
      [NoOptions EXCEPT !.secure = Given(TRUE)],
      [NoOptions EXCEPT !.days = Days(-1)],
      [NoOptions EXCEPT !.days = Days(1)],
      [NoOptions EXCEPT !.raw = Given(TRUE), !.path = Given("/")],
      [NoOptions EXCEPT !.expires = Given(Now + 2), !.path = Given("/"),
                        !.domain = Given(DocumentDomain), !.secure = Given(TRUE)] }
OptCallOptions ==
    { NoOptions,
      [NoOptions EXCEPT !.expires = Given(Now + 2)],
      [NoOptions EXCEPT !.days = Days(1), !.expires = Given(Now + 3)],
      [NoOptions EXCEPT !.days = FractionalDays, !.expires = Given(Now - 1)],
      [NoOptions EXCEPT !.secure = Given(FALSE), !.path = Given("/x")],
      [NoOptions EXCEPT !.domain = Given("other.org"), !.raw = Given(FALSE)] }

-----------------------------------------------------------------------------
(* The host's document.cookie *)

\* Date.prototype.toUTCString, and the host reading it back
UTC(n) == "day" \o ToString(n)
DateOf(tok) == CHOOSE n \in Dates : UTC(n) = tok

\* the getter: the visible cookies as name=value, joined by "; "
DocumentCookie(j) ==
    Join([i \in 1..Len(j) |-> j[i].name \o <<"=">> \o j[i].value], <<";", " ">>)

\* the setter (RFC 6265 5.2, 5.3): the text up to the first ";" is
\* name=value, both trimmed; the attributes follow.  A cookie is known by
\* its name and path (every stored cookie has the document's domain).  An
\* expiry that has passed removes the cookie; a cookie already stored keeps
\* its place; a new one goes behind those whose path is as long as its own.
\* Cookies of another domain are refused and cookies on a path the document
\* is not under are never listed, so neither enters the jar.
AssignCookie(j, text) ==
    LET parts == SplitOn(text, ";")
        nv == parts[1]
        eq == IndexOf(nv, "=")
        name == Trim(SubSeq(nv, 1, eq - 1))
        value == Trim(SubSeq(nv, eq + 1, Len(nv)))
        attrs == [k \in 1..(Len(parts) - 1) |-> TrimLeft(parts[k + 1])]
        Has(tok) == \E k \in 1..Len(attrs) : Len(attrs[k]) = 2 /\ attrs[k][1] = tok
        Arg(tok) == attrs[CHOOSE k \in 1..Len(attrs) :
                            /\ Len(attrs[k]) = 2 /\ attrs[k][1] = tok
                            /\ \A m \in (k + 1)..Len(attrs) :
                                  ~(Len(attrs[m]) = 2 /\ attrs[m][1] = tok)][2]
        path == IF Has("path=") THEN Arg("path=") ELSE DefaultPath
        expired == Has("expires=") /\ DateOf(Arg("expires=")) <= Now
        same(c) == c.name = name /\ c.path = path
        cookie == [name |-> name, value |-> value, path |-> path]
    IN  IF eq = 0 THEN j
        ELSE IF Has("domain=") /\ Arg("domain=") # DocumentDomain THEN j
        ELSE IF expired THEN SelectSeq(j, LAMBDA c : ~same(c))
        ELSE IF path \notin VisiblePaths THEN j
        ELSE IF \E i \in 1..Len(j) : same(j[i])
        THEN [i \in 1..Len(j) |-> IF same(j[i]) THEN cookie ELSE j[i]]
        ELSE SelectSeq(j, LAMBDA c : c.path = DefaultPath)
             \o (IF path = DefaultPath THEN <<cookie>> ELSE <<>>)
             \o SelectSeq(j, LAMBDA c : c.path # DefaultPath)
             \o (IF path # DefaultPath THEN <<cookie>> ELSE <<>>)

-----------------------------------------------------------------------------
(* Cookie.get *)

\* new RegExp(source) throws a SyntaxError when a group is left open or
\* closed twice.  '(?:^|; )' and '=([^;]*)' are balanced, so the key decides.
RECURSIVE Balanced(_, _)
Balanced(s, depth) ==
    IF s = <<>> THEN depth = 0
    ELSE IF Head(s) = "(" THEN Balanced(Tail(s), depth + 1)
    ELSE IF Head(s) = ")" THEN depth > 0 /\ Balanced(Tail(s), depth - 1)
    ELSE Balanced(Tail(s), depth)

\* one pattern character against one character of the text: "." is any character
PatternChar(p, c) == p = "." \/ p = c

\* '(?:^|; )' + K + '=' matches with K starting at i
MatchAt(doc, K, i) ==
    /\ i = 1 \/ (i >= 3 /\ doc[i - 2] = ";" /\ doc[i - 1] = " ")
    /\ i + Len(K) <= Len(doc)
    /\ \A n \in 1..Len(K) : PatternChar(K[n], doc[i + n - 1])
    /\ doc[i + Len(K)] = "="

\* '([^;]*)' from position i: the longest run without ";"
RECURSIVE UpToSemicolon(_, _)
UpToSemicolon(doc, i) ==
    IF i > Len(doc) \/ doc[i] = ";" THEN <<>>
    ELSE <<doc[i]>> \o UpToSemicolon(doc, i + 1)

\* document.cookie.match(regexp): [found, group1] of the leftmost match
Match(doc, K) ==
    IF \E i \in 1..Len(doc) : MatchAt(doc, K, i)
    THEN LET i == CHOOSE i \in 1..Len(doc) :
                     MatchAt(doc, K, i) /\ \A m \in 1..(i - 1) : ~MatchAt(doc, K, m)
         IN  [found |-> TRUE, group1 |-> UpToSemicolon(doc, i + Len(K) + 1)]
    ELSE [found |-> FALSE, group1 |-> <<>>]

get(j, key, defaultValue, raw) ==
    LET doc == DocumentCookie(j)
        K == encodeURIComponent(key)
        result == Match(doc, K)
        decoded == decodeURIComponent(result.group1)
    IN  IF doc = <<>> THEN defaultValue
        ELSE IF ~Balanced(K, 0) THEN Threw("SyntaxError")
        ELSE IF ~result.found THEN defaultValue
        ELSE IF raw THEN Str(result.group1)
        ELSE IF decoded.ok THEN Str(decoded.s)
        ELSE Threw("URIError")

-----------------------------------------------------------------------------
(* Cookie.set *)

\* if (opts.path), if (opts.domain); if (opts.secure), opts.raw ? ... : ...
TruthyText(field) == field.set /\ field.v # ""
TruthyFlag(field) == field.set /\ field.v

\* the merge as it would be with the arguments of Object.assign swapped
MergeOptionsDefaultsWin(defaults, call) ==
    [f \in Fields |-> IF defaults[f].set THEN defaults[f] ELSE call[f]]

\* Object.assign({}, this.options, options)
MergeOptions(defaults, call) ==
    [f \in Fields |-> IF call[f].set THEN call[f] ELSE defaults[f]]

\* the unsetting as it would be if it respected a days the caller gave
ForceExpiryUnlessDays(opts, value) ==
    IF value.t = "null" /\ ~opts.days.set THEN [opts EXCEPT !.days = Days(-1)] ELSE opts

\* set as it would be without the unsetting
ForceExpiryNever(opts, value) == opts

\* if (value === null) opts.days = -1
ForceExpiry(opts, value) ==
    IF value.t = "null" THEN [opts EXCEPT !.days = Days(-1)] ELSE opts

\* if (Number.isInteger(opts.days)) opts.expires = today + opts.days
DaysToExpires(opts) ==
    IF opts.days.set /\ opts.days.int
    THEN [opts EXCEPT !.expires = Given(Now + opts.days.v)]
    ELSE opts

\* the options set works with once it has adjusted them
EffectiveOptions(defaults, value, call) ==
    DaysToExpires(ForceExpiry(MergeOptions(defaults, call), value))


\* the value as it would be written if set never encoded it
SafeValueUnencoded(opts, value) == String(value)

SafeValue(opts, value) ==
    IF TruthyFlag(opts.raw) THEN String(value) ELSE encodeURIComponent(String(value))

\* the builder as it would be with the domain pushed before the path
CookieBuilderDomainFirst(opts, key, value) ==
    <<encodeURIComponent(key) \o <<"=">> \o SafeValue(opts, value)>>
    \o (IF opts.expires.set THEN <<<<"expires=", UTC(opts.expires.v)>>>> ELSE <<>>)
    \o (IF TruthyText(opts.domain) THEN <<<<"domain=", opts.domain.v>>>> ELSE <<>>)
    \o (IF TruthyText(opts.path) THEN <<<<"path=", opts.path.v>>>> ELSE <<>>)
    \o (IF TruthyFlag(opts.secure) THEN <<<<"secure">>>> ELSE <<>>)

\* cookieBuilder
CookieBuilder(opts, key, value) ==
    <<encodeURIComponent(key) \o <<"=">> \o SafeValue(opts, value)>>
    \o (IF opts.expires.set THEN <<<<"expires=", UTC(opts.expires.v)>>>> ELSE <<>>)
    \o (IF TruthyText(opts.path) THEN <<<<"path=", opts.path.v>>>> ELSE <<>>)
    \o (IF TruthyText(opts.domain) THEN <<<<"domain=", opts.domain.v>>>> ELSE <<>>)
    \o (IF TruthyFlag(opts.secure) THEN <<<<"secure">>>> ELSE <<>>)

\* the text set assigns to document.cookie
CookieText(defaults, key, value, call) ==
    Join(CookieBuilder(EffectiveOptions(defaults, value, call), key, value), <<";", " ">>)

-----------------------------------------------------------------------------
(* The Cookie module as a state machine *)

Call(op, key, value, opts) == [op |-> op, key |-> key, value |-> value, opts |-> opts]

NoGet == [called |-> FALSE, key |-> <<>>, defaultValue |-> Null, raw |-> FALSE, ret |-> Null]

\* cookies the server set before any script ran
InitialJars ==
    { <<>>, <<[name |-> <<"a">>, value |-> <<"b">>, path |-> "/"]>> }

NoCall == [called |-> FALSE, op |-> "none", arg |-> [kind |-> "undefined", text |-> <<>>, items |-> <<>>], ret |-> FALSE]

BrowserIdle ==
    /\ browser = [identity |-> <<>>, version |-> <<>>]
    /\ asked = [positive |-> NoCall, outdated |-> NoCall]

Init ==
    /\ options = NoOptions
    /\ configured = NoOptions
    /\ jar \in InitialJars
    /\ written = <<>>
    /\ last = Call("none", <<>>, Null, NoOptions)
    /\ got = NoGet
    /\ BrowserIdle

\* configure as it would be if it kept the fields of earlier calls
NewDefaultsMerged(current, o) ==
    [f \in Fields |-> IF o[f].set THEN o[f] ELSE current[f]]

\* Object.assign({}, options)
NewDefaults(current, o) == o

configure(o) ==
    /\ options' = NewDefaults(options, o)
    /\ configured' = o
    /\ last' = Call("configure", <<>>, Null, o)
    /\ got' = NoGet
    /\ UNCHANGED <<jar, written, browser, asked>>

Get(key, defaultValue, raw) ==
    /\ got' = [called |-> TRUE, key |-> key, defaultValue |-> defaultValue, raw |-> raw,
               ret |-> get(jar, key, defaultValue, raw)]
    /\ UNCHANGED <<options, configured, jar, written, last, browser, asked>>

set(op, key, value, o) ==
    LET text == CookieText(options, key, value, o)
        stored == AssignCookie(jar, text)
    IN  /\ Len(stored) <= MaxJar
        /\ written' = text
        /\ jar' = stored
        /\ last' = Call(op, key, value, o)
        /\ got' = NoGet
        /\ UNCHANGED <<options, configured, browser, asked>>

Set(key, value, o) == set("set", key, value, o)

\* this.set(key, null, options)
Unset(key, o) == set("unset", key, Null, o)

Next ==
    \/ \E o \in ConfigOptions : configure(o)
    \/ \E k \in Keys, g \in GetOptions : Get(k, g.defaultValue, g.raw)
    \/ \E k \in Keys, v \in Values, o \in CallOptions : Set(k, v, o)
    \/ \E k \in Keys, o \in CallOptions : Unset(k, o)

Spec == Init /\ [][Next]_vars

OptionsNext ==
    \/ \E o \in OptConfigOptions : configure(o)
    \/ \E k \in OptKeys, g \in OptGetOptions : Get(k, g.defaultValue, g.raw)
    \/ \E k \in OptKeys, v \in OptValues, o \in OptCallOptions : Set(k, v, o)
    \/ \E k \in OptKeys, o \in OptCallOptions : Unset(k, o)

OptionsSpec == Init /\ [][OptionsNext]_vars

-----------------------------------------------------------------------------
(* The Browser module: matches, oneOf, isOutdated *)

\* String.prototype.toLowerCase over the letters of the model
LowerChar(c) ==
    CASE c = "C" -> "c"
      [] c = "E" -> "e"
      [] OTHER   -> c

toLowerCase(s) == [i \in 1..Len(s) |-> LowerChar(s[i])]

\* String.prototype.includes
includes(s, sub) ==
    \E i \in 0..(Len(s) - Len(sub)) : SubSeq(s, i + 1, i + Len(sub)) = sub

\* query.split(/\s+/): cut at every run of whitespace; a run at either end
\* leaves an empty string there
RECURSIVE SplitWhitespace(_)
SplitWhitespace(s) ==
    LET i == IndexOf(s, " ")
        rest == TrimLeft(SubSeq(s, i, Len(s)))
    IN  IF i = 0 THEN <<s>>
        ELSE <<SubSeq(s, 1, i - 1)>> \o SplitWhitespace(rest)

\* digits to a number
RECURSIVE ParseInt(_, _)
ParseInt(s, acc) ==
    IF s = <<>> THEN acc
    ELSE LET d == CASE Head(s) = "0" -> 0 [] Head(s) = "1" -> 1 [] Head(s) = "2" -> 2
                    [] Head(s) = "3" -> 3 [] Head(s) = "4" -> 4 [] Head(s) = "5" -> 5
                    [] Head(s) = "6" -> 6 [] Head(s) = "7" -> 7 [] Head(s) = "8" -> 8
                    [] Head(s) = "9" -> 9 [] OTHER -> 0
         IN  ParseInt(Tail(s), 10 * acc + d)

\* -1, 0 or 1: a against b, component by component from the left, a
\* missing component counting as 0
RECURSIVE CompareComponents(_, _)
CompareComponents(a, b) ==
    IF a = <<>> /\ b = <<>> THEN 0
    ELSE LET x == IF a = <<>> THEN 0 ELSE Head(a)
             y == IF b = <<>> THEN 0 ELSE Head(b)
         IN  IF x < y THEN -1
             ELSE IF x > y THEN 1
             ELSE CompareComponents(IF a = <<>> THEN a ELSE Tail(a),
                                    IF b = <<>> THEN b ELSE Tail(b))

\* compareVersion(actual, operator, expected) of ./version.  expected is
\* [defined, text]: matches passes undefined when the query stops after
\* the operator, and that counts as no components at all.  An operator
\* outside the seven gives false.
compareVersion(actual, operator, expected) ==
    LET parts == IF expected.defined THEN SplitOn(expected.text, ".") ELSE <<>>
        wanted == [i \in 1..Len(parts) |-> ParseInt(parts[i], 0)]
        c == CompareComponents(actual, wanted)
    IN  CASE operator = <<"<">>      -> c < 0
          [] operator = <<"<", "=">> -> c <= 0
          [] operator = <<">">>      -> c > 0
          [] operator = <<">", "=">> -> c >= 0
          [] operator = <<"=", "=">> -> c = 0
          [] operator = <<"=">>      -> c = 0
          [] operator = <<"!", "=">> -> c # 0
          [] OTHER                   -> FALSE

\* matches as it would be without toLowerCase
matchesCaseSensitive(b, query) ==
    LET result == SplitWhitespace(query)
        version == IF Len(result) >= 3
                   THEN [defined |-> TRUE, text |-> result[3]]
                   ELSE [defined |-> FALSE, text |-> <<>>]
    IN  IF ~includes(b.identity, result[1]) THEN FALSE
        ELSE IF Len(result) <= 1 THEN TRUE
        ELSE compareVersion(b.version, result[2], version)

matches(b, query) ==
    LET result == SplitWhitespace(query)
        name == result[1]
        operator == result[2]
        version == IF Len(result) >= 3
                   THEN [defined |-> TRUE, text |-> result[3]]
                   ELSE [defined |-> FALSE, text |-> <<>>]
    IN  IF ~includes(toLowerCase(b.identity), toLowerCase(name)) THEN FALSE
        ELSE IF Len(result) <= 1 THEN TRUE
        ELSE compareVersion(b.version, operator, version)

\* what a caller passes for a list of queries: one string, an array, or nothing
OneQuery(q) == [kind |-> "string", text |-> q, items |-> <<>>]
QueryList(qs) == [kind |-> "array", text |-> <<>>, items |-> qs]
Omitted == [kind |-> "undefined", text |-> <<>>, items |-> <<>>]

\* oneOf as it would be if every line had to match
oneOfEvery(b, arg) ==
    LET lines == CASE arg.kind = "undefined" -> <<>>
                   [] arg.kind = "string"    -> <<arg.text>>
                   [] arg.kind = "array"     -> arg.items
    IN  Len(SelectSeq(lines, LAMBDA line : matches(b, line))) = Len(lines)

oneOf(b, arg) ==
    LET lines == CASE arg.kind = "undefined" -> <<>>
                   [] arg.kind = "string"    -> <<arg.text>>
                   [] arg.kind = "array"     -> arg.items
    IN  Len(SelectSeq(lines, LAMBDA line : matches(b, line))) > 0

\* isOutdated as it would be without the negation
isOutdatedSame(b, supportedBrowsers) ==
    LET lines == CASE supportedBrowsers.kind = "undefined" -> <<>>
                   [] supportedBrowsers.kind = "string"    -> <<supportedBrowsers.text>>
                   [] supportedBrowsers.kind = "array"     -> supportedBrowsers.items
    IN  \E i \in 1..Len(lines) : matches(b, lines[i])

isOutdated(b, supportedBrowsers) == ~oneOf(b, supportedBrowsers)

\* the hosts
Chrome == <<"C", "h", "r", "o", "m", "e">>
Explorer == <<"E", "x", "p", "l", "o", "r", "e", "r">>
Browsers ==
    { [identity |-> Chrome, version |-> <<62, 0, 3202, 94>>],
      [identity |-> Chrome, version |-> <<42>>],
      [identity |-> Chrome, version |-> <<>>],
      [identity |-> Explorer, version |-> <<5, 5>>],
      [identity |-> Explorer, version |-> <<11>>] }

\* the queries
chrome == <<"c", "h", "r", "o", "m", "e">>
explorer == <<"e", "x", "p", "l", "o", "r", "e", "r">>
Queries ==
    { chrome,
      Chrome \o <<" ">>,
      <<" ">> \o chrome,
      chrome \o <<" ", ">", "=">>,
      chrome \o <<" ", ">", "=", " ", "4", "3">>,
      Chrome \o <<" ", " ", "<", " ", " ", "4", "3", " ", "x">>,
      chrome \o <<" ", "=", "=", " ", "6", "2", ".", "0", ".", "3", "2", "0", "2", ".", "9", "4", ".", "0">>,
      chrome \o <<" ", "~", " ", "4", "3">>,
      <<"r", "o", "m", "e", " ", "!", "=", " ", "4", "2", ".", "0">>,
      explorer \o <<" ", "<", " ", "6">>,
      explorer \o <<" ", ">", "=", " ", "9", ".", "0">> }
ListQueries ==
    { chrome \o <<" ", ">", "=", " ", "4", "3">>,
      explorer \o <<" ", "<", " ", "6">>,
      explorer \o <<" ", ">", "=", " ", "9", ".", "0">> }
QueryArgs ==
    {Omitted} \cup {OneQuery(q) : q \in ListQueries}
    \cup {QueryList(qs) : qs \in SeqsUpTo(ListQueries, MaxQueries)}

CookieIdle ==
    /\ options = NoOptions
    /\ configured = NoOptions
    /\ jar = <<>>
    /\ written = <<>>
    /\ last = Call("none", <<>>, Null, NoOptions)
    /\ got = NoGet

BrowserInit ==
    /\ browser \in Browsers
    /\ asked = [positive |-> NoCall, outdated |-> NoCall]
    /\ CookieIdle

Asked(op, arg, ret) == [called |-> TRUE, op |-> op, arg |-> arg, ret |-> ret]

Matches(query) ==
    /\ asked' = [asked EXCEPT !.positive = Asked("matches", OneQuery(query), matches(browser, query))]
    /\ UNCHANGED <<options, configured, jar, written, last, got, browser>>

OneOf(arg) ==
    /\ asked' = [asked EXCEPT !.positive = Asked("oneOf", arg, oneOf(browser, arg))]
    /\ UNCHANGED <<options, configured, jar, written, last, got, browser>>

IsOutdated(arg) ==
    /\ asked' = [asked EXCEPT !.outdated = Asked("isOutdated", arg, isOutdated(browser, arg))]
    /\ UNCHANGED <<options, configured, jar, written, last, got, browser>>

BrowserNext ==
    \/ \E q \in Queries : Matches(q)
    \/ \E a \in QueryArgs : OneOf(a)
    \/ \E a \in QueryArgs : IsOutdated(a)

BrowserSpec == BrowserInit /\ [][BrowserNext]_vars

-----------------------------------------------------------------------------
(* Reading the state for the properties below *)

IsSetCall == last.op \in {"set", "unset"}

\* get(k) after the call `last`, for the same key
GotSameKey == got.called /\ got.key = last.key

\* a key none of whose characters means something to RegExp once encoded
PlainKey(key) == \A i \in 1..Len(key) : key[i] \notin {".", "*", "(", ")"}

\* the call's value of a field when the call supplies it, else the default's
Picked(f) == IF last.opts[f].set THEN last.opts[f] ELSE options[f]

\* the parts of a written cookie text
NameValue(text) == SplitOn(text, ";")[1]
Attrs(text) ==
    [k \in 1..(Len(SplitOn(text, ";")) - 1) |-> TrimLeft(SplitOn(text, ";")[k + 1])]
AttrNames(text) == [k \in 1..Len(Attrs(text)) |-> Attrs(text)[k][1]]
Attr(text, tok) == SelectSeq(Attrs(text), LAMBDA a : a[1] = tok)
Expected(present, attr) == IF present THEN <<attr>> ELSE <<>>

\* the cookies of the jar stored under the encoded key
Named(j, key) == SelectSeq(j, LAMBDA c : c.name = encodeURIComponent(key))

SecureOnly == [NoOptions EXCEPT !.secure = Given(TRUE)]

-----------------------------------------------------------------------------
(* C1 *)

-----------------------------------------------------------------------------
(* C2 *)

-----------------------------------------------------------------------------
(* C3 *)

\* C3: the defaults are exactly the options of the most recent configure
\* call, and empty when there was none: earlier configure calls leave
\* nothing behind, and set, unset and get do not touch them.
C3_LastConfigureWins == options = configured

C3_Witness ==
    /\ configured = SecureOnly
    /\ options = SecureOnly
    /\ last.op = "set"
    /\ got.called

-----------------------------------------------------------------------------
(* C4 *)

\* C4 as stated, for a value that is not null: every attribute set writes
\* carries the call's value of its field when the call supplies one and
\* the default's otherwise; so the expiry written is the expires given by
\* the call, else the one given by the defaults, else none.
C4_CallAlwaysWins ==
    (IsSetCall /\ last.value.t # "null") =>
        /\ Attr(written, "expires=")
             = Expected(Picked("expires").set, <<"expires=", UTC(Picked("expires").v)>>)
        /\ Attr(written, "path=")
             = Expected(TruthyText(Picked("path")), <<"path=", Picked("path").v>>)
        /\ Attr(written, "domain=")
             = Expected(TruthyText(Picked("domain")), <<"domain=", Picked("domain").v>>)
        /\ Attr(written, "secure") = Expected(TruthyFlag(Picked("secure")), <<"secure">>)

\* C4 as amended: path, domain, secure and raw take the call's value when
\* the call supplies one and the default's otherwise.  So does days,
\* unless the value is null: then days is -1.  So does expires, unless
\* the days in effect is an integer: then expires is today + days.
C4_CallWins ==
    IsSetCall =>
        LET days == IF last.value.t = "null" THEN Days(-1) ELSE Picked("days")
            expires == IF days.set /\ days.int THEN Given(Now + days.v) ELSE Picked("expires")
            text == String(last.value)
        IN  /\ Attr(written, "expires=")
                 = Expected(expires.set, <<"expires=", UTC(expires.v)>>)
            /\ Attr(written, "path=")
                 = Expected(TruthyText(Picked("path")), <<"path=", Picked("path").v>>)
            /\ Attr(written, "domain=")
                 = Expected(TruthyText(Picked("domain")), <<"domain=", Picked("domain").v>>)
            /\ Attr(written, "secure") = Expected(TruthyFlag(Picked("secure")), <<"secure">>)
            /\ NameValue(written)
                 = encodeURIComponent(last.key) \o <<"=">>
                   \o (IF TruthyFlag(Picked("raw")) THEN text ELSE encodeURIComponent(text))

\* the defaults give days, the call gives expires: the days decide
C4_Witness ==
    /\ last.op = "set" /\ last.value = Str(<<"%">>)
    /\ options.days = Days(1)
    /\ last.opts.expires = Given(Now + 2) /\ ~last.opts.days.set
    /\ Attr(written, "expires=") = <<<<"expires=", UTC(Now + 1)>>>>

-----------------------------------------------------------------------------
(* C5 *)

\* C5: the text set writes is key=value followed by those of expires,
\* path, domain, secure whose option in effect is set, in that order;
\* after configure({secure: true}), set('a', 'b') writes "a=b; secure".
C5_Serialization ==
    IsSetCall =>
        LET eff == EffectiveOptions(options, last.value, last.opts)
            present(tok) ==
                CASE tok = "expires=" -> eff.expires.set
                  [] tok = "path="    -> TruthyText(eff.path)
                  [] tok = "domain="  -> TruthyText(eff.domain)
                  [] tok = "secure"   -> TruthyFlag(eff.secure)
            key == encodeURIComponent(last.key)
        IN  /\ SubSeq(NameValue(written), 1, Len(key) + 1) = key \o <<"=">>
            /\ AttrNames(written)
                 = SelectSeq(<<"expires=", "path=", "domain=", "secure">>, present)
            /\ (options = SecureOnly /\ last = Call("set", <<"a">>, Str(<<"b">>), NoOptions)
                  => written = <<"a", "=", "b", ";", " ", "secure">>)

C5_Witness ==
    /\ options = SecureOnly
    /\ last = Call("set", <<"a">>, Str(<<"b">>), NoOptions)
    /\ written = <<"a", "=", "b", ";", " ", "secure">>

-----------------------------------------------------------------------------
(* C6 *)

\* C6 as stated: get never throws; it returns defaultValue when no cookie
\* has the key (or there is no cookie at all), and otherwise the stored
\* value, decoded unless raw is asked for.
C6_GetNeverThrows ==
    got.called =>
        LET named == Named(jar, got.key)
            decoded == decodeURIComponent(named[1].value)
        IN  /\ got.ret.t # "throw"
            /\ named = <<>> => got.ret = got.defaultValue
            /\ (named # <<>> /\ got.raw) => got.ret = Str(named[1].value)
            /\ (named # <<>> /\ ~got.raw) => (decoded.ok /\ got.ret = Str(decoded.s))

-----------------------------------------------------------------------------
(* C10 *)

\* C10: with a null value (and in unset) the cookie written expires
\* yesterday, whatever days or expires the defaults or the call give;
\* with another value and an integer days in effect it expires at
\* today + days, whatever expires was given.
C10_ForcedExpiry ==
    IsSetCall =>
        /\ last.value.t = "null"
             => Attr(written, "expires=") = <<<<"expires=", UTC(Now - 1)>>>>
        /\ (last.value.t # "null" /\ Picked("days").set /\ Picked("days").int)
             => Attr(written, "expires=") = <<<<"expires=", UTC(Now + Picked("days").v)>>>>

\* unset with its own days and expires, over defaults that give days too
C10_Witness ==
    /\ last.op = "unset"
    /\ last.opts.days = Days(1) /\ last.opts.expires = Given(Now + 3)
    /\ options.days = Days(1)
    /\ Attr(written, "expires=") = <<<<"expires=", UTC(Now - 1)>>>>

-----------------------------------------------------------------------------
(* C7, C8, C9 *)

\* C7: matches(query) is false when the browser's identity does not
\* contain the query's first word (whatever the case of either), true when
\* it does and the query has no more words, and otherwise what
\* compareVersion says of the browser's version, the second word and the
\* third; so 'explorer < 6' is false on every browser that is not Explorer.
C7_Matches ==
    (asked.positive.called /\ asked.positive.op = "matches") =>
        LET query == asked.positive.arg.text
            words == SplitWhitespace(query)
            named == includes(toLowerCase(browser.identity), toLowerCase(words[1]))
            third == IF Len(words) >= 3
                     THEN [defined |-> TRUE, text |-> words[3]]
                     ELSE [defined |-> FALSE, text |-> <<>>]
        IN  /\ ~named => asked.positive.ret = FALSE
            /\ (named /\ Len(words) = 1) => asked.positive.ret = TRUE
            /\ (named /\ Len(words) > 1)
                 => asked.positive.ret = compareVersion(browser.version, words[2], third)
            /\ (query = explorer \o <<" ", "<", " ", "6">> /\ browser.identity # Explorer)
                 => asked.positive.ret = FALSE

C7_Witness ==
    /\ browser = [identity |-> Chrome, version |-> <<42>>]
    /\ asked.positive = Asked("matches", OneQuery(Chrome \o <<" ", " ", "<", " ", " ", "4", "3", " ", "x">>), TRUE)

\* C8: oneOf is true exactly when matches is true of one of the queries: of
\* the query itself when given a string, of none when given nothing or [].
C8_OneOf ==
    (asked.positive.called /\ asked.positive.op = "oneOf") =>
        LET arg == asked.positive.arg
            queries == CASE arg.kind = "string"    -> {arg.text}
                         [] arg.kind = "array"     -> {arg.items[i] : i \in 1..Len(arg.items)}
                         [] arg.kind = "undefined" -> {}
        IN  asked.positive.ret = (\E q \in queries : matches(browser, q))

C8_Witness ==
    /\ browser.identity = Chrome
    /\ asked.positive.called /\ asked.positive.op = "oneOf"
    /\ asked.positive.arg = QueryList(<<explorer \o <<" ", "<", " ", "6">>,
                                        chrome \o <<" ", ">", "=", " ", "4", "3">>>>)
    /\ asked.positive.ret = TRUE

\* C9: isOutdated(X) and oneOf(X), asked of the same browser with the same
\* X, never give the same answer.
C9_IsOutdated ==
    (asked.outdated.called /\ asked.positive.called /\ asked.positive.op = "oneOf"
        /\ asked.outdated.arg = asked.positive.arg)
    => asked.outdated.ret # asked.positive.ret

C9_Witness ==
    /\ asked.outdated.called /\ asked.positive.called /\ asked.positive.op = "oneOf"
    /\ asked.outdated.arg = Omitted /\ asked.positive.arg = Omitted
    /\ asked.outdated.ret = TRUE /\ asked.positive.ret = FALSE

====
